---- MODULE Spec2Model ----
(***************************************************************************)
(* EyeCare (app.py): a Flask application that takes an eye image (upload   *)
(* or camera capture), sends it to a vision model, extracts a JSON object  *)
(* from the model's reply and keeps it in the session for the result page. *)
(*                                                                         *)
(* A text is a sequence of one-character strings.  json_loads follows      *)
(* CPython's json.decoder (JSONObject, JSONArray, scanstring, scan_once,   *)
(* NUMBER_RE) on texts without backslashes.                                *)
(***************************************************************************)
EXTENDS Integers, Sequences, FiniteSets, TLC

\* ------------------------------------------------------------------------
\* Bounds
\* ------------------------------------------------------------------------
\* longest text handed to extract_json on its own
MaxLen == 6

\* number of requests a session sends
MaxRequests == 2

\* ------------------------------------------------------------------------
\* Characters
\* ------------------------------------------------------------------------
Alphabet == {"{", "}", "\"", ":", "1", "a"}

Digits == {"0", "1", "2", "3", "4", "5", "6", "7", "8", "9"}

WHITESPACE == {" ", "\t", "\n", "\r"}

Min(S) == CHOOSE x \in S : \A y \in S : x <= y

Max(S) == CHOOSE x \in S : \A y \in S : x >= y

\* s[i:i+1] of Python, 1-based: the empty string beyond the end
At(s, i) == IF i >= 1 /\ i <= Len(s) THEN s[i] ELSE ""

\* s[i:i+n] == w
StartsWith(s, i, w) == i + Len(w) - 1 <= Len(s) /\ SubSeq(s, i, i + Len(w) - 1) = w

\* ------------------------------------------------------------------------
\* json.loads
\* ------------------------------------------------------------------------
JSONDecodeError == [ok |-> FALSE]

Decoded(val, end) == [ok |-> TRUE, val |-> val, end |-> end]

\* WHITESPACE.match(s, i).end()
SkipWs(s, i) ==
  CHOOSE j \in i..(Len(s) + 1) :
    /\ \A k \in i..(j - 1) : s[k] \in WHITESPACE
    /\ At(s, j) \notin WHITESPACE

\* end of the run of digits that starts at i
DigitsEnd(s, i) ==
  CHOOSE j \in i..(Len(s) + 1) :
    /\ \A k \in i..(j - 1) : s[k] \in Digits
    /\ At(s, j) \notin Digits

\* NUMBER_RE = (-?(?:0|[1-9][0-9]*))(\.[0-9]+)?([eE][-+]?[0-9]+)? ; 0 is no match
match_number(s, i) ==
  LET k == IF At(s, i) = "-" THEN i + 1 ELSE i
      intEnd == IF At(s, k) = "0" THEN k + 1
                ELSE IF At(s, k) \in Digits THEN DigitsEnd(s, k)
                ELSE 0
      fracEnd == IF At(s, intEnd) = "." /\ At(s, intEnd + 1) \in Digits
                 THEN DigitsEnd(s, intEnd + 1)
                 ELSE intEnd
      x == IF At(s, fracEnd + 1) \in {"+", "-"} THEN fracEnd + 2 ELSE fracEnd + 1
      expEnd == IF At(s, fracEnd) \in {"e", "E"} /\ At(s, x) \in Digits
                THEN DigitsEnd(s, x)
                ELSE fracEnd
  IN IF intEnd = 0 THEN 0 ELSE expEnd

\* scanstring(s, end, strict=True); end is just past the opening quote
py_scanstring(s, end) ==
  LET quotes == {j \in end..Len(s) : s[j] = "\""}
  IN IF quotes = {} THEN JSONDecodeError
     ELSE LET j == Min(quotes)
              body == SubSeq(s, end, j - 1)
          IN IF \E k \in 1..Len(body) : body[k] \in {"\t", "\n", "\r"}
             THEN JSONDecodeError
             ELSE Decoded([t |-> "str", v |-> body], j + 1)

\* dict(pairs): a later pair with the same key replaces the earlier one
Put(d, key, val) == [x \in (DOMAIN d) \cup {key} |-> IF x = key THEN val ELSE d[x]]

EmptyDict == [x \in {} |-> 0]

RECURSIVE scan_once(_, _)
RECURSIVE ObjectPairs(_, _, _)
RECURSIVE ArrayItems(_, _, _)

\* the "while True" loop of JSONObject; end is just past the key's opening quote
ObjectPairs(s, end, pairs) ==
  LET key == py_scanstring(s, end)
  IN IF ~key.ok THEN JSONDecodeError
     ELSE LET c == SkipWs(s, key.end)
          IN IF At(s, c) # ":" THEN JSONDecodeError
             ELSE LET value == scan_once(s, SkipWs(s, c + 1))
                  IN IF ~value.ok THEN JSONDecodeError
                     ELSE LET d == SkipWs(s, value.end)
                              np == Put(pairs, key.val.v, value.val)
                          IN IF At(s, d) = "}" THEN Decoded([t |-> "obj", v |-> np], d + 1)
                             ELSE IF At(s, d) # "," THEN JSONDecodeError
                             ELSE LET q == SkipWs(s, d + 1)
                                  IN IF At(s, q) # "\"" THEN JSONDecodeError
                                     ELSE ObjectPairs(s, q + 1, np)

\* JSONObject((s, end), ...); end is just past the "{"
JSONObject(s, end) ==
  LET e == SkipWs(s, end)
  IN IF At(s, e) = "}" THEN Decoded([t |-> "obj", v |-> EmptyDict], e + 1)
     ELSE IF At(s, e) # "\"" THEN JSONDecodeError
     ELSE ObjectPairs(s, e + 1, EmptyDict)

\* the "while True" loop of JSONArray; end is at the next value
ArrayItems(s, end, values) ==
  LET value == scan_once(s, end)
  IN IF ~value.ok THEN JSONDecodeError
     ELSE LET d == SkipWs(s, value.end)
              nv == Append(values, value.val)
          IN IF At(s, d) = "]" THEN Decoded([t |-> "arr", v |-> nv], d + 1)
             ELSE IF At(s, d) # "," THEN JSONDecodeError
             ELSE ArrayItems(s, SkipWs(s, d + 1), nv)

\* JSONArray((s, end), scan_once); end is just past the "["
JSONArray(s, end) ==
  LET e == SkipWs(s, end)
  IN IF At(s, e) = "]" THEN Decoded([t |-> "arr", v |-> <<>>], e + 1)
     ELSE ArrayItems(s, e, <<>>)

\* py_make_scanner._scan_once
scan_once(s, idx) ==
  LET c == At(s, idx)
      m == match_number(s, idx)
  IN IF c = "" THEN JSONDecodeError
     ELSE IF c = "\"" THEN py_scanstring(s, idx + 1)
     ELSE IF c = "{" THEN JSONObject(s, idx + 1)
     ELSE IF c = "[" THEN JSONArray(s, idx + 1)
     ELSE IF StartsWith(s, idx, <<"n", "u", "l", "l">>)
          THEN Decoded([t |-> "lit", v |-> "None"], idx + 4)
     ELSE IF StartsWith(s, idx, <<"t", "r", "u", "e">>)
          THEN Decoded([t |-> "lit", v |-> "True"], idx + 4)
     ELSE IF StartsWith(s, idx, <<"f", "a", "l", "s", "e">>)
          THEN Decoded([t |-> "lit", v |-> "False"], idx + 5)
     ELSE IF m # 0 THEN Decoded([t |-> "num", v |-> SubSeq(s, idx, m - 1)], m)
     ELSE IF StartsWith(s, idx, <<"N", "a", "N">>)
          THEN Decoded([t |-> "lit", v |-> "nan"], idx + 3)
     ELSE IF StartsWith(s, idx, <<"I", "n", "f", "i", "n", "i", "t", "y">>)
          THEN Decoded([t |-> "lit", v |-> "inf"], idx + 8)
     ELSE IF StartsWith(s, idx, <<"-", "I", "n", "f", "i", "n", "i", "t", "y">>)
          THEN Decoded([t |-> "lit", v |-> "-inf"], idx + 9)
     ELSE JSONDecodeError

\* JSONDecoder.decode: one value, then only whitespace up to the end
json_loads(s) ==
  LET obj == scan_once(s, SkipWs(s, 1))
  IN IF ~obj.ok THEN JSONDecodeError
     ELSE IF SkipWs(s, obj.end) # Len(s) + 1 THEN JSONDecodeError
     ELSE obj

\* ------------------------------------------------------------------------
\* extract_json
\* ------------------------------------------------------------------------
NoMatch == <<0, 0>>

\* re.match in place of re.search
re_match(text) ==
  IF At(text, 1) = "{" /\ \E j \in 2..Len(text) : text[j] = "}"
  THEN <<1, Max({j \in 2..Len(text) : text[j] = "}"})>>
  ELSE NoMatch

\* r"\{.*?\}" in place of r"\{.*\}"
re_search_lazy(text) ==
  LET starts == {i \in 1..Len(text) :
                   text[i] = "{" /\ \E j \in (i + 1)..Len(text) : text[j] = "}"}
  IN IF starts = {} THEN NoMatch
     ELSE LET i == Min(starts)
          IN <<i, Min({j \in (i + 1)..Len(text) : text[j] = "}"})>>

\* re.search(r"\{.*\}", text, re.DOTALL): the leftmost "{" from which the
\* pattern can match, and from there ".*" backtracks from the end of the text
\* to the last "}"
re_search(text) ==
  LET starts == {i \in 1..Len(text) :
                   text[i] = "{" /\ \E j \in (i + 1)..Len(text) : text[j] = "}"}
  IN IF starts = {} THEN NoMatch
     ELSE LET i == Min(starts)
          IN <<i, Max({j \in (i + 1)..Len(text) : text[j] = "}"})>>

\* ValueError("Invalid JSON returned by OpenRouter model")
MalformedResponse == [t |-> "ValueError", v |-> "Invalid JSON returned by OpenRouter model"]

\* without the try/except around json.loads
extract_json_uncaught(text) ==
  LET m == re_search(text)
      parsed == json_loads(SubSeq(text, m[1], m[2]))
  IN IF m = NoMatch THEN MalformedResponse
     ELSE IF ~parsed.ok THEN [t |-> "JSONDecodeError", v |-> "Expecting value"]
     ELSE parsed.val

extract_json(text) ==
  LET m == re_search(text)
      parsed == json_loads(SubSeq(text, m[1], m[2]))
  IN IF m = NoMatch THEN MalformedResponse
     ELSE IF ~parsed.ok THEN MalformedResponse
     ELSE parsed.val

\* ------------------------------------------------------------------------
\* Upstream replies (choices[0].message.content)
\* ------------------------------------------------------------------------
Quoted(w) == <<"\"">> \o w \o <<"\"">>

diagnosis == <<"d", "i", "a", "g", "n", "o", "s", "i", "s">>

description == <<"d", "e", "s", "c", "r", "i", "p", "t", "i", "o", "n">>

symptoms == <<"s", "y", "m", "p", "t", "o", "m", "s">>

home_remedies == <<"h", "o", "m", "e", "_", "r", "e", "m", "e", "d", "i", "e", "s">>

medicines == <<"m", "e", "d", "i", "c", "i", "n", "e", "s">>

disclaimer == <<"d", "i", "s", "c", "l", "a", "i", "m", "e", "r">>

\* the six fields the prompt asks for
PROMPT == {diagnosis, description, symptoms, home_remedies, medicines, disclaimer}

\* a reply in the format of the prompt
FullReply ==
  <<"{">> \o Quoted(diagnosis) \o <<":">> \o Quoted(<<"a">>) \o <<",", " ">>
          \o Quoted(description) \o <<":">> \o Quoted(<<"a">>) \o <<",", " ">>
          \o Quoted(symptoms) \o <<":">> \o Quoted(<<"a">>) \o <<",", "\n">>
          \o Quoted(home_remedies) \o <<":", "[">> \o Quoted(<<"a">>) \o <<",">>
                                   \o Quoted(<<"1">>) \o <<"]", ",">>
          \o Quoted(medicines) \o <<":", "[">> \o Quoted(<<"a">>) \o <<"]", ",">>
          \o Quoted(disclaimer) \o <<":">> \o Quoted(<<"a">>) \o <<"}">>

\* a JSON object without five of the fields, wrapped in prose
PartialReply == <<"a", " ", "{">> \o Quoted(diagnosis) \o <<":">> \o Quoted(<<"a">>) \o <<"}", " ", "a">>

\* a reply without any JSON
ProseReply == <<"a", " ", "a">>

Replies == {FullReply, PartialReply, ProseReply}

\* what requests.post / raise_for_status / response.json()[...] can do
VisionOutcomes ==
  {[kind |-> "Timeout"], [kind |-> "HTTPError"], [kind |-> "KeyError"]}
    \cup {[kind |-> "ok", content |-> t] : t \in Replies}

\* ------------------------------------------------------------------------
\* Requests
\* ------------------------------------------------------------------------
Reqs == {1, 2}

UPLOAD_FOLDER == "static/"

\* os.path.join(app.config["UPLOAD_FOLDER"], name) for a relative name
PathJoin(folder, name) == folder \o name

\* file contents: two images and a file that is no image
Images == {"imgA", "imgB"}

Bytes == Images \cup {"junk"}

\* base64 text of b, and a text b64decode rejects
B64(b) == <<"base64", b>>

BadPadding == <<"base64", "=">>

b64decode(encoded) == encoded[2]

\* Image.open(...).convert("RGB") saved as JPEG
Jpeg(b) == [format |-> "JPEG", image |-> b]

\* request.files: no field, an empty filename, or a named upload
Files ==
  {EmptyDict,
   [image |-> [filename |-> "", data |-> "imgA"]],
   [image |-> [filename |-> "eye.jpg", data |-> "imgA"]],
   [image |-> [filename |-> "eye.jpg", data |-> "junk"]],
   [image |-> [filename |-> "captured.jpg", data |-> "imgB"]]}

\* request.form: camera_image as the list of its comma-separated parts
Forms ==
  {EmptyDict,
   [camera_image |-> <<"data:image/png;base64">>],
   [camera_image |-> <<"data:image/png;base64", BadPadding>>],
   [camera_image |-> <<"data:image/png;base64", B64("imgA")>>],
   [camera_image |-> <<"data:image/png;base64", B64("junk")>>]}

\* the requests of two clients that share file names
SharedFiles == {EmptyDict} \cup {[image |-> [filename |-> "eye.jpg", data |-> b]] : b \in Images}

SharedForms == {EmptyDict} \cup {[camera_image |-> <<"data:image/png;base64", B64(b)>>] : b \in Images}

VARIABLES
  session,     \* flask.session: a dict
  disk,        \* the files under UPLOAD_FOLDER: path -> contents
  pc,          \* where each request's handler stands
  request,     \* request.files and request.form of each request
  local,       \* the local variables analyze() has bound so far
  response,    \* what each request returned
  rendered,    \* what the last GET /result passed to the template
  served,      \* number of requests received
  log,         \* history: the steps each request performed
  pre,         \* history: session and disk when each request arrived
  lastOk,      \* history: reply and path of the last request redirected to /result
  text,        \* extract_json on its own: the argument
  extracted    \* extract_json on its own: the outcome

vars == <<session, disk, pc, request, local, response, rendered, served, log, pre, lastOk,
          text, extracted>>

Texts == UNION {[1..n -> Alphabet] : n \in 0..MaxLen}

NoResponse == [kind |-> "none"]

Redirect(to) == [kind |-> "redirect", to |-> to]

\* f"Error: {str(e)}"
ErrorText(e) == [kind |-> "text", body |-> <<"Error: ", e>>]

\* session.get(key)
Get(d, key) == IF key \in DOMAIN d THEN <<d[key]>> ELSE <<>>

Init ==
  /\ session = EmptyDict
  /\ disk = EmptyDict
  /\ pc = [r \in Reqs |-> "idle"]
  /\ request = [r \in Reqs |-> [files |-> EmptyDict, form |-> EmptyDict]]
  /\ local = [r \in Reqs |-> EmptyDict]
  /\ response = [r \in Reqs |-> NoResponse]
  /\ rendered = <<>>
  /\ served = 0
  /\ log = [r \in Reqs |-> <<>>]
  /\ pre = [r \in Reqs |-> [session |-> EmptyDict, disk |-> EmptyDict]]
  /\ lastOk = <<>>
  /\ text = <<>>
  /\ extracted = <<>>

Logged(r, step, ok, arg) == log' = [log EXCEPT ![r] = Append(@, [step |-> step, ok |-> ok, arg |-> arg])]

Bind(r, name, val) == local' = [local EXCEPT ![r] = Put(@, name, val)]

HasUpload_anyname(req) == "image" \in DOMAIN req.files

\* line 112
HasUpload(req) == "image" \in DOMAIN req.files /\ req.files["image"].filename # ""

HasCamera_if(req) == "camera_image" \in DOMAIN req.form

\* line 120
HasCamera(req) == ~HasUpload(req) /\ "camera_image" \in DOMAIN req.form

\* a POST /analyze arrives
Receive(r, files, form) ==
  /\ pc[r] \in {"idle", "done"}
  /\ served < MaxRequests
  /\ served' = served + 1
  /\ request' = [request EXCEPT ![r] = [files |-> files, form |-> form]]
  /\ local' = [local EXCEPT ![r] = EmptyDict]
  /\ response' = [response EXCEPT ![r] = NoResponse]
  /\ log' = [log EXCEPT ![r] = <<>>]
  /\ pre' = [pre EXCEPT ![r] = [session |-> session, disk |-> disk]]
  /\ pc' = [pc EXCEPT ![r] = "input"]
  /\ UNCHANGED <<session, disk, rendered, lastOk, text, extracted>>

\* the requests of one client arrive one after the other
Post ==
  /\ \A q \in Reqs : pc[q] \in {"idle", "done"}
  /\ \E files \in Files, form \in Forms : Receive(1, files, form)

\* requests arrive while others are in the handler
PostConcurrent(r) ==
  /\ pc[r] = "idle"
  /\ \E files \in SharedFiles, form \in SharedForms : Receive(r, files, form)

Except_ValueError(r, e) ==
  /\ response' = [response EXCEPT ![r] =
                    IF e \in {"Invalid JSON returned by OpenRouter model",
                              "not enough values to unpack (expected 2, got 1)",
                              "Incorrect padding"}
                    THEN ErrorText(e)
                    ELSE [kind |-> "500 Internal Server Error"]]
  /\ pc' = [pc EXCEPT ![r] = "done"]

\* except Exception as e: return f"Error: {str(e)}"
Except(r, e) ==
  /\ response' = [response EXCEPT ![r] = ErrorText(e)]
  /\ pc' = [pc EXCEPT ![r] = "done"]

\* lines 112-115
SaveUpload(r) ==
  /\ pc[r] = "input"
  /\ HasUpload(request[r])
  /\ LET image_file == request[r].files["image"]
         filepath == PathJoin(UPLOAD_FOLDER, image_file.filename)
     IN \E saved \in BOOLEAN :
          IF saved
          THEN /\ disk' = Put(disk, filepath, image_file.data)
               /\ Bind(r, "filepath", filepath)
               /\ Logged(r, "write", TRUE, <<filepath, image_file.data>>)
               /\ pc' = [pc EXCEPT ![r] = "load"]
               /\ UNCHANGED response
          ELSE /\ Except(r, "OSError")
               /\ Bind(r, "filepath", filepath)
               /\ Logged(r, "write", FALSE, <<filepath, image_file.data>>)
               /\ UNCHANGED disk
  /\ UNCHANGED <<session, request, rendered, served, pre, lastOk, text, extracted>>

\* lines 120-126
SaveCamera(r) ==
  /\ pc[r] = "input"
  /\ HasCamera(request[r])
  /\ LET camera_data == request[r].form["camera_image"]
         encoded == camera_data[2]
         img_bytes == b64decode(encoded)
         filepath == PathJoin(UPLOAD_FOLDER, "captured.jpg")
     IN IF Len(camera_data) < 2
        THEN /\ Except(r, "not enough values to unpack (expected 2, got 1)")
             /\ Logged(r, "b64decode", FALSE, camera_data)
             /\ UNCHANGED <<disk, local>>
        ELSE IF encoded = BadPadding
        THEN /\ Except(r, "Incorrect padding")
             /\ Logged(r, "b64decode", FALSE, camera_data)
             /\ UNCHANGED <<disk, local>>
        ELSE \E saved \in BOOLEAN :
               IF saved
               THEN /\ disk' = Put(disk, filepath, img_bytes)
                    /\ local' = [local EXCEPT ![r] = Put(Put(@, "img_bytes", img_bytes),
                                                         "filepath", filepath)]
                    /\ log' = [log EXCEPT ![r] =
                                 @ \o <<[step |-> "b64decode", ok |-> TRUE, arg |-> camera_data],
                                        [step |-> "write", ok |-> TRUE, arg |-> <<filepath, img_bytes>>]>>]
                    /\ pc' = [pc EXCEPT ![r] = "load"]
                    /\ UNCHANGED response
               ELSE /\ Except(r, "OSError")
                    /\ local' = [local EXCEPT ![r] = Put(Put(@, "img_bytes", img_bytes),
                                                         "filepath", filepath)]
                    /\ log' = [log EXCEPT ![r] =
                                 @ \o <<[step |-> "b64decode", ok |-> TRUE, arg |-> camera_data],
                                        [step |-> "write", ok |-> FALSE, arg |-> <<filepath, img_bytes>>]>>]
                    /\ UNCHANGED disk
  /\ UNCHANGED <<session, request, rendered, served, pre, lastOk, text, extracted>>

\* lines 128-129
NoInput(r) ==
  /\ pc[r] = "input"
  /\ ~HasUpload(request[r])
  /\ ~HasCamera(request[r])
  /\ response' = [response EXCEPT ![r] = Redirect("index")]
  /\ pc' = [pc EXCEPT ![r] = "done"]
  /\ UNCHANGED <<session, disk, request, local, rendered, served, log, pre, lastOk,
                 text, extracted>>

Opened_captured(r) == Get(disk, PathJoin(UPLOAD_FOLDER, "captured.jpg"))

\* the file Image.open(filepath) reads
Opened(r) == Get(disk, local[r]["filepath"])

\* lines 134-137
LoadImage(r) ==
  /\ pc[r] = "load"
  /\ LET file == Opened(r)
     IN IF file # <<>> /\ file[1] \in Images
        THEN /\ Bind(r, "img_bytes", Jpeg(file[1]))
             /\ Logged(r, "load", TRUE, file)
             /\ pc' = [pc EXCEPT ![r] = "call"]
             /\ UNCHANGED response
        ELSE /\ Except(r, "cannot identify image file")
             /\ Logged(r, "load", FALSE, file)
             /\ UNCHANGED local
  /\ UNCHANGED <<session, disk, request, rendered, served, pre, lastOk, text, extracted>>

call_openrouter_vision_retry(r) ==
  /\ pc[r] = "call"
  /\ \E outcome \in VisionOutcomes :
       IF outcome.kind = "ok"
       THEN /\ Bind(r, "ai_response_text", outcome.content)
            /\ Logged(r, "call", TRUE, local[r]["img_bytes"])
            /\ pc' = [pc EXCEPT ![r] = "extract"]
            /\ UNCHANGED response
       ELSE IF log[r][Len(log[r])].step # "call"
       THEN /\ Logged(r, "call", FALSE, local[r]["img_bytes"])
            /\ UNCHANGED <<local, response, pc>>
       ELSE /\ Except(r, outcome.kind)
            /\ Logged(r, "call", FALSE, local[r]["img_bytes"])
            /\ UNCHANGED local
  /\ UNCHANGED <<session, disk, request, rendered, served, pre, lastOk, text, extracted>>

\* line 142 with lines 61-97
call_openrouter_vision(r) ==
  /\ pc[r] = "call"
  /\ \E outcome \in VisionOutcomes :
       IF outcome.kind = "ok"
       THEN /\ Bind(r, "ai_response_text", outcome.content)
            /\ Logged(r, "call", TRUE, local[r]["img_bytes"])
            /\ pc' = [pc EXCEPT ![r] = "extract"]
            /\ UNCHANGED response
       ELSE /\ Except(r, outcome.kind)
            /\ Logged(r, "call", FALSE, local[r]["img_bytes"])
            /\ UNCHANGED local
  /\ UNCHANGED <<session, disk, request, rendered, served, pre, lastOk, text, extracted>>

\* line 143
Extract(r) ==
  /\ pc[r] = "extract"
  /\ LET result == extract_json(local[r]["ai_response_text"])
     IN IF result = MalformedResponse
        THEN /\ Except(r, MalformedResponse.v)
             /\ Logged(r, "extract", FALSE, <<>>)
             /\ UNCHANGED local
        ELSE /\ Bind(r, "result", result)
             /\ Logged(r, "extract", TRUE, <<>>)
             /\ pc' = [pc EXCEPT ![r] = "store"]
             /\ UNCHANGED response
  /\ UNCHANGED <<session, disk, request, rendered, served, pre, lastOk, text, extracted>>

Store_result_only(r) ==
  /\ pc[r] = "store"
  /\ session' = Put(session, "result", local[r]["result"])
  /\ response' = [response EXCEPT ![r] = Redirect("result")]
  /\ pc' = [pc EXCEPT ![r] = "done"]
  /\ Logged(r, "store", TRUE, <<>>)
  /\ lastOk' = <<[reply |-> local[r]["ai_response_text"], request |-> request[r]]>>
  /\ UNCHANGED <<disk, request, local, rendered, served, pre, text, extracted>>

\* lines 148-151
Store(r) ==
  /\ pc[r] = "store"
  /\ session' = Put(Put(session, "result", local[r]["result"]), "image_url", local[r]["filepath"])
  /\ response' = [response EXCEPT ![r] = Redirect("result")]
  /\ pc' = [pc EXCEPT ![r] = "done"]
  /\ Logged(r, "store", TRUE, <<>>)
  /\ lastOk' = <<[reply |-> local[r]["ai_response_text"], request |-> request[r]]>>
  /\ UNCHANGED <<disk, request, local, rendered, served, pre, text, extracted>>

\* GET /result
result ==
  /\ \A q \in Reqs : pc[q] \in {"idle", "done"}
  /\ rendered' = <<[result |-> Get(session, "result"), image_url |-> Get(session, "image_url")]>>
  /\ UNCHANGED <<session, disk, pc, request, local, response, served, log, pre, lastOk,
                 text, extracted>>

\* the handler of POST /analyze, step by step
analyze(r) ==
  \/ SaveUpload(r)
  \/ SaveCamera(r)
  \/ NoInput(r)
  \/ LoadImage(r)
  \/ call_openrouter_vision(r)
  \/ Extract(r)
  \/ Store(r)

Next ==
  \/ Post
  \/ \E r \in Reqs : analyze(r)
  \/ result

\* one client, one request at a time
Spec == Init /\ [][Next]_vars

NextConcurrent ==
  \/ \E r \in Reqs : PostConcurrent(r)
  \/ \E r \in Reqs : analyze(r)

\* the threaded server: requests overlap
SpecConcurrent == Init /\ [][NextConcurrent]_vars

\* ------------------------------------------------------------------------
\* extract_json on its own
\* ------------------------------------------------------------------------
InitExtract ==
  /\ session = EmptyDict
  /\ disk = EmptyDict
  /\ pc = [r \in Reqs |-> "idle"]
  /\ request = [r \in Reqs |-> [files |-> EmptyDict, form |-> EmptyDict]]
  /\ local = [r \in Reqs |-> EmptyDict]
  /\ response = [r \in Reqs |-> NoResponse]
  /\ rendered = <<>>
  /\ served = 0
  /\ log = [r \in Reqs |-> <<>>]
  /\ pre = [r \in Reqs |-> [session |-> EmptyDict, disk |-> EmptyDict]]
  /\ lastOk = <<>>
  /\ text \in Texts
  /\ extracted = <<>>

ExtractText ==
  /\ extracted = <<>>
  /\ extracted' = <<extract_json(text)>>
  /\ UNCHANGED <<session, disk, pc, request, local, response, rendered, served, log, pre,
                 lastOk, text>>

SpecExtract == InitExtract /\ [][ExtractText]_vars

\* ------------------------------------------------------------------------
\* Properties
\* ------------------------------------------------------------------------
Opens(t) == {i \in 1..Len(t) : t[i] = "{"}

Closes(t) == {j \in 1..Len(t) : t[j] = "}"}

\* the text has a "{" followed later by a "}"
BracePair(t) == \E i \in Opens(t), j \in Closes(t) : i < j

\* from the first "{" of the text to its last "}"
OuterSpan(t) == SubSeq(t, Min(Opens(t)), Max(Closes(t)))

\* what parsing the first-"{"-to-last-"}" span gives
OuterParse(t) ==
  IF BracePair(t) /\ json_loads(OuterSpan(t)).ok
  THEN json_loads(OuterSpan(t)).val
  ELSE MalformedResponse

\* number of "{" minus number of "}" in t[i..j]
Depth(t, i, j) ==
  Cardinality({k \in i..j : t[k] = "{"}) - Cardinality({k \in i..j : t[k] = "}"})

\* brace pairs that balance
BalancedPairs(t) ==
  {p \in Opens(t) \X Closes(t) :
     /\ p[1] < p[2]
     /\ Depth(t, p[1], p[2]) = 0
     /\ \A k \in p[1]..(p[2] - 1) : Depth(t, p[1], k) > 0}

FirstBalanced(t) == CHOOSE p \in BalancedPairs(t) : \A q \in BalancedPairs(t) : p[1] <= q[1]

\* spans of the text that are a well-formed JSON object
ObjectSpans(t) == {p \in Opens(t) \X Closes(t) : p[1] < p[2] /\ json_loads(SubSeq(t, p[1], p[2])).ok}

\* those that do not lie inside another one
TopSpans(t) ==
  {p \in ObjectSpans(t) :
     \A q \in ObjectSpans(t) : q = p \/ ~(q[1] <= p[1] /\ p[2] <= q[2])}

TheObject(t) == CHOOSE p \in TopSpans(t) : TRUE

Extracted == extracted # <<>>

\* the upload of the request, when it has a usable one
Usable(req) == "image" \in DOMAIN req.files /\ req.files["image"].filename # ""

\* where the request's image is to be stored
ExpectedPath(req) ==
  IF Usable(req) THEN "static/" \o req.files["image"].filename ELSE "static/captured.jpg"

\* the bytes the request submitted
Submitted(req) ==
  IF Usable(req) THEN req.files["image"].data
  ELSE IF "camera_image" \in DOMAIN req.form /\ Len(req.form["camera_image"]) >= 2
  THEN req.form["camera_image"][2][2]
  ELSE "nothing"

StepNames(r) == [i \in 1..Len(log[r]) |-> log[r][i].step]

Entries(r, step) == {i \in 1..Len(log[r]) : log[r][i].step = step}

Failed(r) == log[r] # <<>> /\ ~log[r][Len(log[r])].ok

IsPrefix(a, b) == Len(a) <= Len(b) /\ a = SubSeq(b, 1, Len(a))

\* C1: the stored record, when present, has all six fields, and a request
\* whose reply parses to an object missing a field ends in an error
C1_StoredRecordHasSixFields ==
  /\ "result" \in DOMAIN session => PROMPT \subseteq DOMAIN session["result"].v
  /\ \A r \in Reqs :
       (/\ pc[r] = "done"
        /\ "ai_response_text" \in DOMAIN local[r]
        /\ OuterParse(local[r]["ai_response_text"]) # MalformedResponse
        /\ ~(PROMPT \subseteq DOMAIN OuterParse(local[r]["ai_response_text"]).v))
       => response[r].kind = "text"

\* C2: a request that failed at a step has terminated with a body that begins
\* with "Error: " and the session is what it was when the request arrived
C2_FailureIsErrorText ==
  \A r \in Reqs :
    Failed(r) =>
      /\ pc[r] = "done"
      /\ response[r].kind = "text"
      /\ response[r].body[1] = "Error: "
      /\ session = pre[r].session

C2_Witness ==
  /\ Failed(1)
  /\ log[1][Len(log[1])].step = "extract"
  /\ "result" \in DOMAIN session

\* C3: a request with neither a usable upload nor a camera_image performs no
\* step, is redirected to the input page and leaves session and disk alone
C3_NoInputRedirects ==
  \A r \in Reqs :
    (~Usable(request[r]) /\ "camera_image" \notin DOMAIN request[r].form) =>
      /\ log[r] = <<>>
      /\ pc[r] \in {"idle", "input", "done"}
      /\ pc[r] = "done" =>
           /\ response[r] = [kind |-> "redirect", to |-> "index"]
           /\ session = pre[r].session
           /\ disk = pre[r].disk

C3_Witness ==
  /\ pc[1] = "done"
  /\ "image" \in DOMAIN request[1].files
  /\ ~Usable(request[1])
  /\ "camera_image" \notin DOMAIN request[1].form
  /\ session # EmptyDict

\* the session as the last successful request must have left it
ExpectedSession ==
  IF lastOk = <<>> THEN EmptyDict
  ELSE [k \in {"result", "image_url"} |->
          IF k = "result" THEN OuterParse(lastOk[1].reply) ELSE ExpectedPath(lastOk[1].request)]

\* C4: the session holds nothing or the record and path of the most recent
\* request that was redirected to /result; other requests leave it as it
\* was; GET /result shows the pair and leaves the session alone
C4_LastSuccessWins ==
  /\ [](/\ session = ExpectedSession
        /\ \A r \in Reqs :
             pc[r] = "done" =>
               IF response[r] = [kind |-> "redirect", to |-> "result"]
               THEN lastOk = <<[reply |-> local[r]["ai_response_text"], request |-> request[r]]>>
               ELSE session = pre[r].session)
  /\ [][rendered' # rendered =>
          /\ session' = session
          /\ rendered' = <<[result |-> Get(session, "result"),
                            image_url |-> Get(session, "image_url")]>>]_vars

C4_Witness ==
  /\ served = 2
  /\ pc[1] = "done"
  /\ response[1] = [kind |-> "redirect", to |-> "result"]
  /\ pre[1].session # EmptyDict
  /\ pre[1].session["image_url"] # session["image_url"]
  /\ pre[1].session["result"] # session["result"]
  /\ rendered = <<[result |-> <<session["result"]>>, image_url |-> <<session["image_url"]>>]>>

\* C5 as stated: a text with exactly one well-formed JSON object anywhere in
\* it yields that object
C5_OneObjectAnywhere ==
  (Extracted /\ Cardinality(TopSpans(text)) = 1) =>
    LET p == TheObject(text)
    IN extracted[1] = json_loads(SubSeq(text, p[1], p[2])).val

\* C5: a text with exactly one well-formed JSON object, no "{" before it and
\* no "}" after it, yields that object
C5_OneObjectOutermost ==
  (/\ Extracted
   /\ Cardinality(TopSpans(text)) = 1
   /\ \A i \in Opens(text) : i >= TheObject(text)[1]
   /\ \A j \in Closes(text) : j <= TheObject(text)[2]) =>
    LET p == TheObject(text)
    IN extracted[1] = json_loads(SubSeq(text, p[1], p[2])).val

C5_Witness ==
  /\ Extracted
  /\ Cardinality(TopSpans(text)) = 1
  /\ TheObject(text)[1] > 1
  /\ TheObject(text)[2] < Len(text)
  /\ \E j \in Closes(text) : j < TheObject(text)[1]
  /\ \E i \in Opens(text) : i > TheObject(text)[2]
  /\ extracted[1] # MalformedResponse

\* C6: the outcome is that of parsing the span from the first "{" to the last
\* "}", and it is not the parse of the first balanced brace pair when that
\* pair is another span
C6_OutermostGreedy ==
  Extracted =>
    /\ extracted[1] = OuterParse(text)
    /\ (/\ BalancedPairs(text) # {}
        /\ FirstBalanced(text) # <<Min(Opens(text)), Max(Closes(text))>>
        /\ json_loads(SubSeq(text, FirstBalanced(text)[1], FirstBalanced(text)[2])).ok)
       => extracted[1] = MalformedResponse

C6_Witness ==
  /\ Extracted
  /\ Cardinality(BalancedPairs(text)) = 2
  /\ FirstBalanced(text) # <<Min(Opens(text)), Max(Closes(text))>>
  /\ json_loads(SubSeq(text, FirstBalanced(text)[1], FirstBalanced(text)[2])).ok
  /\ extracted[1] = MalformedResponse

\* C7: the outcome is the ValueError exactly when there is no "{" followed by
\* a "}" or the first-"{"-to-last-"}" span is not valid JSON, it is the parsed
\* object otherwise, and nothing else changes
C7_MalformedExactly ==
  Extracted =>
    /\ extracted[1].t \in {"ValueError", "obj"}
    /\ extracted[1].t = "ValueError" <=>
         (~BracePair(text) \/ ~json_loads(OuterSpan(text)).ok)
    /\ extracted[1].t = "ValueError" =>
         extracted[1].v = "Invalid JSON returned by OpenRouter model"
    /\ extracted[1].t = "obj" => extracted[1] = json_loads(OuterSpan(text)).val
    /\ session = EmptyDict /\ disk = EmptyDict /\ rendered = <<>>

C7_Witness ==
  /\ Extracted
  /\ BracePair(text)
  /\ ~json_loads(OuterSpan(text)).ok
  /\ ObjectSpans(text) # {}
  /\ extracted[1] = MalformedResponse

Order == <<"b64decode", "write", "load", "call", "extract", "store">>

\* C8: the steps of a request are an initial part of write, load, call,
\* extract, store (after the camera decoding, if any), each at most once, and
\* a step is taken only when the steps before it succeeded
C8_FixedOrder ==
  \A r \in Reqs :
    /\ IsPrefix(StepNames(r), Order) \/ IsPrefix(StepNames(r), Tail(Order))
    /\ \A i \in 1..(Len(log[r]) - 1) : log[r][i].ok

C8_Witness ==
  /\ StepNames(1) = Order
  /\ response[1] = [kind |-> "redirect", to |-> "result"]
  /\ served = 2

\* C9: a request sends upstream bytes it did not submit only when a
\* concurrent request with the same file path wrote them
C9_ForeignBytesFromCollision ==
  \A r \in Reqs :
    \A i \in Entries(r, "call") :
      log[r][i].arg # Jpeg(Submitted(request[r])) =>
        \E q \in Reqs \ {r} :
          /\ ExpectedPath(request[q]) = ExpectedPath(request[r])
          /\ log[r][i].arg = Jpeg(Submitted(request[q]))
          /\ \E k \in Entries(q, "write") : log[q][k].ok

C9_Witness ==
  \E a \in Reqs, b \in Reqs :
    /\ a # b
    /\ response[a] = [kind |-> "redirect", to |-> "result"]
    /\ ExpectedPath(request[a]) = ExpectedPath(request[b])
    /\ pc[b] # "idle"
    /\ Submitted(request[a]) # Submitted(request[b])
    /\ \E i \in Entries(a, "call") : log[a][i].arg = Jpeg(Submitted(request[b]))
    /\ \E i \in Entries(a, "write") : log[a][i].arg = <<ExpectedPath(request[a]), Submitted(request[a])>>
    /\ session["image_url"] = ExpectedPath(request[a])

====
